---- MODULE Spec2Model ----
(***************************************************************************)
(* A model of qboost_demo.ipynb: the notebook's code cells run once each,  *)
(* top to bottom, by one kernel; train_model runs statement by statement;  *)
(* every call into a library (scikit-learn, keras, numpy, the D-Wave SDK,  *)
(* the qboost package) made by train_model is a step of its own, after     *)
(* which the call is in flight until it returns or raises; a raised        *)
(* exception is caught nowhere.                                            *)
(*                                                                         *)
(* The two datasets are scaled down: the MNIST splits hold NumTrain and    *)
(* NumTest images of NumPix pixels and NumSel rows are selected (60000,    *)
(* 10000, 784 and 15000 in the notebook), the breast-cancer set holds      *)
(* NumWisc samples (569).                                                  *)
(***************************************************************************)
EXTENDS Integers, Sequences, FiniteSets, TLC

\* ------------------------------------------------------------- bounds
NumTrain == 2
NumTest == 1
NumPix == 2
NumSel == 2
NumWisc == 3
MaxLen == 3

VARIABLES
    cell,        \* position in CodeCells of the next cell to run
    kernel,      \* "idle" | "train_model" | "aborted"
    raised,      \* the uncaught exception that aborted the run
    defined,     \* the global names bound so far
    x_train, y_train, x_test, y_test,      \* globals of cells 13/14/21
    idx_01, idx_02, X_train, X_test,
    wisc, idx, idx_train, idx_test,
    clfs,        \* the global the two training cells assign
    tm,          \* the frame of the running train_model call
    log,         \* the statements of train_model the last cell executed
    arg_y, arg_y_pred, ret               \* one call of metric

nbvars == <<cell, kernel, raised, defined, x_train, y_train, x_test, y_test,
            idx_01, idx_02, X_train, X_test, wisc, idx, idx_train, idx_test,
            clfs, tm, log>>
datavars == <<x_train, y_train, x_test, y_test, idx_01, idx_02, X_train,
              X_test, wisc, idx, idx_train, idx_test>>
mvars == <<arg_y, arg_y_pred, ret>>
vars == <<nbvars, mvars>>

\* ------------------------------------------------------------ helpers
Range(s) == {s[i] : i \in 1..Len(s)}

Remove(s, i) == SubSeq(s, 1, i - 1) \o SubSeq(s, i + 1, Len(s))

RECURSIVE Concat(_)
Concat(ss) == IF Len(ss) = 0 THEN <<>> ELSE Head(ss) \o Concat(Tail(ss))

Min(a, b) == IF a < b THEN a ELSE b

\* -------------------------------------------------- metric (cell 9)
MatchCountMismatches(y, p) == Cardinality({i \in 1..Len(y) : y[i] # p[i]})

\* The number of positions at which two equally long vectors agree.
MatchCount(y, p) == Cardinality({i \in 1..Len(y) : y[i] = p[i]})

\* metrics.accuracy_score: the fraction num/den of matching positions; it
\* raises ValueError for vectors of different lengths.
accuracy_score(y, p) ==
    IF Len(y) # Len(p)
    THEN [ok |-> FALSE, num |-> 0, den |-> 1]
    ELSE [ok |-> TRUE, num |-> MatchCount(y, p), den |-> Len(y)]

metric(y, p) == accuracy_score(y, p)

\* --------------------------------------------- numpy, as the cells use it
\* Indices are 1-based here (0-based in numpy); slices keep Python's
\* half-open meaning: s[lo:hi].
SliceInclusive(s, lo, hi) == SubSeq(s, lo + 1, Min(hi + 1, Len(s)))

Slice(s, lo, hi) == SubSeq(s, lo + 1, Min(hi, Len(s)))

\* a[idx] for an integer index array idx.
Take(a, ix) == [i \in 1..Len(ix) |-> a[ix[i]]]

\* np.arange(n)
arange(n) == [i \in 1..n |-> i]

\* The values s[:k] can have after np.random.shuffle(s): the first k entries
\* of every permutation of s (all of s when k >= len(s)).
RECURSIVE ShuffledPrefix(_, _)
ShuffledPrefix(s, k) ==
    IF k = 0 \/ Len(s) = 0
    THEN {<<>>}
    ELSE UNION {{<<s[i]>> \o t : t \in ShuffledPrefix(Remove(s, i), k - 1)}
                : i \in 1..Len(s)}

\* np.where(x <= 9)[0] on a stack of images: the image index of every pixel
\* that is at most 9, image by image.
WhereLE9(x) ==
    Concat([i \in 1..Len(x) |->
              [p \in 1..Len(SelectSeq(x[i], LAMBDA v : v <= 9)) |-> i]])

SpinOfDigitOffByOne(y) ==
    [i \in 1..Len(y) |-> 2 * (IF y[i] > 5 THEN 1 ELSE 0) - 1]

SpinOfDigitUnscaled(y) == [i \in 1..Len(y) |-> IF y[i] > 4 THEN 1 ELSE 0]

\* 2*(y > 4) - 1, elementwise (cell 14)
SpinOfDigit(y) == [i \in 1..Len(y) |-> 2 * (IF y[i] > 4 THEN 1 ELSE 0) - 1]

\* 2 * target - 1, elementwise (cell 21)
SpinOfTarget(t) == [i \in 1..Len(t) |-> 2 * t[i] - 1]

\* ------------------------------------------------------------ datasets
Digits == 0..9

\* An MNIST image: background 0, and one stroke pixel (255) in every other
\* image.
MnistImage(i) == [p \in 1..NumPix |-> IF p = 1 /\ i % 2 = 0 THEN 255 ELSE 0]

\* What mnist.load_data() returns: the digits run d0+1, d0+2, ... (mod 10) in
\* the training split and d0+6, d0+7, ... in the test split.
MnistData(d0) ==
    [x_train |-> [i \in 1..NumTrain |-> MnistImage(i)],
     y_train |-> [i \in 1..NumTrain |-> (d0 + i) % 10],
     x_test |-> [i \in 1..NumTest |-> MnistImage(i)],
     y_test |-> [i \in 1..NumTest |-> (d0 + 5 + i) % 10]]

MnistDatasets == {MnistData(d0) : d0 \in Digits}

\* What load_breast_cancer() returns: one feature row per sample (the row
\* names its sample) and a 0/1 target, both classes present.
WiscData ==
    [data |-> [i \in 1..NumWisc |-> <<i>>],
     target |-> [i \in 1..NumWisc |-> i % 2]]

\* -------------------------------------------------- train_model (cell 9)
\* The five classifiers, by the number of their local variable clf1..clf5.
ClfClass == <<"AdaBoostClassifier", "WeakClassifiers", "RandomForestClassifier",
              "QBoostClassifier", "QboostPlus">>

Clfs == 1..5

\* A statement of train_model: what it does, the classifier it is about (0:
\* none), its source line, whether it calls into a library (and so may
\* raise), and whether it is handed emb_sampler.
S(op, k, line) ==
    [op |-> op, k |-> k, line |-> line, lib |-> TRUE, sampler |-> FALSE]
P(op, k, line) ==
    [op |-> op, k |-> k, line |-> line, lib |-> FALSE, sampler |-> FALSE]
QWithoutSampler(op, k, line) ==
    [op |-> op, k |-> k, line |-> line, lib |-> TRUE, sampler |-> FALSE]

Q(op, k, line) ==
    [op |-> op, k |-> k, line |-> line, lib |-> TRUE, sampler |-> TRUE]

\* The body of train_model, statement by statement.
Body ==
    << S("DWaveSampler", 0, 195),
       S("EmbeddingComposite", 0, 196),
       P("sizes", 0, 198),
       S("Imputer", 0, 205),
       S("StandardScaler", 0, 206),
       S("Normalizer", 0, 207),
       S("scale_train", 0, 209),
       S("normalize_train", 0, 210),
       S("scale_test", 0, 212),
       S("normalize_test", 0, 213),
       \* Adaboost
       P("header", 1, 216),
       S("construct", 1, 217),
       S("fit", 1, 218),
       S("predict_train", 1, 219),
       S("predict_test", 1, 220),
       S("accu_train", 1, 222),
       S("accu_test", 1, 223),
       \* Ensembles of Decision Tree
       P("header", 2, 226),
       S("construct", 2, 227),
       S("fit", 2, 228),
       S("predict_train", 2, 229),
       S("predict_test", 2, 230),
       S("accu_train", 2, 232),
       S("accu_test", 2, 233),
       \* Random forest
       P("header", 3, 236),
       S("construct", 3, 237),
       S("fit", 3, 238),
       S("predict_train", 3, 239),
       S("predict_test", 3, 240),
       S("accu_train", 3, 241),
       S("accu_test", 3, 242),
       \* Qboost
       P("header", 4, 245),
       S("construct", 4, 246),
       Q("fit", 4, 247),
       S("predict_train", 4, 248),
       S("predict_test", 4, 249),
       S("weights", 4, 250),
       S("accu_train", 4, 251),
       S("accu_test", 4, 252),
       \* QboostPlus
       P("header", 5, 255),
       S("construct", 5, 256),
       Q("fit", 5, 257),
       S("predict_train", 5, 258),
       S("predict_test", 5, 259),
       S("weights", 5, 260),
       S("accu_train", 5, 261),
       S("accu_test", 5, 262),
       \* the comparison table
       S("table", 0, 264),
       P("return", 0, 279) >>

BodyPredictBeforeFit ==
    [i \in 1..Len(Body) |->
        IF Body[i].op = "fit" /\ Body[i].k = 3 THEN Body[i + 1]
        ELSE IF Body[i].op = "predict_train" /\ Body[i].k = 3 THEN Body[i - 1]
        ELSE Body[i]]

\* The statements in the order the interpreter runs them.
Program == Body

\* The statements of Program that are annealer-backed fits.
AnnealerFits == {i \in 1..Len(Program) : Program[i].sampler}

\* The classifiers QboostPlus([clf1, clf2, clf3, clf4]) embeds.
Embedded(k) == IF k = 5 THEN <<1, 2, 3, 4>> ELSE <<>>

ReturnListSwapped == <<1, 2, 3, 5, 4>>

\* return [clf1, clf2, clf3, clf4, clf5]
ReturnList == <<1, 2, 3, 4, 5>>

\* DW_PARAMS
DW_PARAMS ==
    [num_reads |-> 1000, auto_scale |-> TRUE,
     num_spin_reversal_transforms |-> 10, postprocess |-> "optimization"]

NoParams ==
    [num_reads |-> 0, auto_scale |-> FALSE,
     num_spin_reversal_transforms |-> 0, postprocess |-> ""]

\* A feature matrix inside train_model: its rows, and what preprocessing
\* has been applied to it.
Matrix(rows) == [rows |-> rows, scaled |-> FALSE, normalized |-> FALSE]

\* StandardScaler.fit_transform and Normalizer.fit_transform: a matrix of
\* the same shape, every row standardised / brought to unit norm.
ScalerFitTransform(X) == [X EXCEPT !.scaled = TRUE]
NormalizerFitTransform(X) == [X EXCEPT !.normalized = TRUE]

\* The arguments of a fit call: clf.fit(X, y) or
\* clf.fit(X, y, emb_sampler, lmd=lmd, **DW_PARAMS).
NoArgs ==
    [X |-> Matrix(<<>>), y |-> <<>>, sampler |-> FALSE, lmd |-> 0,
     params |-> NoParams]

FitArgsPlusDefaults(st, frame) ==
    [X |-> frame.X_train, y |-> frame.y_train, sampler |-> st.sampler,
     lmd |-> IF st.sampler /\ st.k = 4 THEN frame.lmd ELSE 0,
     params |-> IF st.sampler /\ st.k = 4 THEN DW_PARAMS ELSE NoParams]

FitArgs(st, frame) ==
    [X |-> frame.X_train, y |-> frame.y_train, sampler |-> st.sampler,
     lmd |-> IF st.sampler THEN frame.lmd ELSE 0,
     params |-> IF st.sampler THEN DW_PARAMS ELSE NoParams]

\* A local clf variable before it is bound.
Unbound == [class |-> "", state |-> "unbound", members |-> <<>>]

NoFrame ==
    [pc |-> 0, X_train |-> Matrix(<<>>), y_train |-> <<>>,
     X_test |-> Matrix(<<>>), y_test |-> <<>>, lmd |-> 0,
     dwave_sampler |-> FALSE, emb_sampler |-> FALSE, prep |-> {},
     clf |-> [k \in Clfs |-> Unbound],
     fit_args |-> [k \in Clfs |-> NoArgs],
     y_train_pred |-> {}, y_test_pred |-> {}, inflight |-> {}]

EnterSwapped(Xtr, ytr, Xte, yte, lmd) ==
    [NoFrame EXCEPT !.pc = 1, !.X_train = Matrix(Xte), !.y_train = ytr,
                    !.X_test = Matrix(Xtr), !.y_test = yte, !.lmd = lmd]

\* The frame of train_model(X_train, y_train, X_test, y_test, lmd) on entry.
Enter(Xtr, ytr, Xte, yte, lmd) ==
    [NoFrame EXCEPT !.pc = 1, !.X_train = Matrix(Xtr), !.y_train = ytr,
                    !.X_test = Matrix(Xte), !.y_test = yte, !.lmd = lmd]

\* ------------------------------------------------------- the notebook
\* The code cells in notebook order: the cell's number, the source line of
\* its first statement, the global names it reads and binds, and whether it
\* calls into a library.
CodeCells ==
    << [id |-> 4, line |-> 99, lib |-> FALSE, reads |-> {},
        writes |-> {"sapi_token"}],
       [id |-> 6, line |-> 116, lib |-> TRUE, reads |-> {},
        writes |-> {"preprocessing", "metrics", "AdaBoostClassifier",
                    "RandomForestClassifier", "fetch_mldata",
                    "load_breast_cancer", "DWaveSampler",
                    "EmbeddingComposite", "WeakClassifiers",
                    "QBoostClassifier", "QboostPlus"}],
       [id |-> 8, line |-> 147, lib |-> TRUE, reads |-> {"sapi_token"},
        writes |-> {"RemoteConnection", "url", "token", "conn",
                    "solver_name"}],
       [id |-> 9, line |-> 164, lib |-> FALSE, reads |-> {},
        writes |-> {"metric", "train_model"}],
       [id |-> 11, line |-> 297, lib |-> TRUE, reads |-> {},
        writes |-> {"np", "plt"}],
       [id |-> 13, line |-> 321, lib |-> TRUE, reads |-> {},
        writes |-> {"mnist", "x_train", "y_train", "x_test", "y_test"}],
       [id |-> 14, line |-> 340, lib |-> TRUE,
        reads |-> {"np", "x_train", "y_train", "x_test", "y_test"},
        writes |-> {"idx_01", "idx_02", "X_train", "X_test", "y_train",
                    "y_test"}],
       [id |-> 16, line |-> 383, lib |-> TRUE,
        reads |-> {"y_train", "X_train", "plt"}, writes |-> {}],
       [id |-> 18, line |-> 434, lib |-> FALSE,
        reads |-> {"train_model", "X_train", "y_train", "X_test", "y_test"},
        writes |-> {"clfs"}],
       [id |-> 19, line |-> 443, lib |-> FALSE, reads |-> {}, writes |-> {}],
       [id |-> 21, line |-> 469, lib |-> TRUE,
        reads |-> {"load_breast_cancer", "np"},
        writes |-> {"wisc", "idx", "idx_train", "idx_test", "X_train",
                    "X_test", "y_train", "y_test"}],
       [id |-> 22, line |-> 502, lib |-> FALSE,
        reads |-> {"X_train", "idx_01"}, writes |-> {}],
       [id |-> 24, line |-> 558, lib |-> FALSE,
        reads |-> {"train_model", "X_train", "y_train", "X_test", "y_test"},
        writes |-> {"clfs"}] >>

NumCells == Len(CodeCells)

\* Cells with no effect the model tracks beyond the names they bind.
PlainCells == {4, 6, 8, 9, 11, 16, 19, 22}
TrainCells == {18, 24}

NoError == [cell |-> 0, line |-> 0]

\* The cell about to run.
Ready == kernel = "idle" /\ cell \in 1..NumCells
Cur == CodeCells[cell]

\* The cell finished: its names are bound and the next cell is up.
Finish ==
    /\ cell' = cell + 1
    /\ defined' = defined \cup Cur.writes
    /\ kernel' = "idle"
    /\ raised' = raised

\* An exception nobody catches ends the run: no later cell executes.
Abort(line) ==
    /\ kernel' = "aborted"
    /\ raised' = [cell |-> Cur.id, line |-> line]
    /\ UNCHANGED <<cell, defined>>

\* ------------------------------------------------------------- cells
\* A cell that only binds names (assignments, imports, definitions, plots).
RunPlainCell ==
    /\ Ready
    /\ Cur.id \in PlainCells
    /\ Cur.reads \subseteq defined
    /\ Finish
    /\ log' = <<>>
    /\ UNCHANGED <<datavars, clfs, tm, mvars>>

\* Cell 13: (x_train, y_train), (x_test, y_test) = mnist.load_data()
LoadMnist ==
    /\ Ready
    /\ Cur.id = 13
    /\ Cur.reads \subseteq defined
    /\ \E d \in MnistDatasets :
          /\ x_train' = d.x_train
          /\ y_train' = d.y_train
          /\ x_test' = d.x_test
          /\ y_test' = d.y_test
    /\ Finish
    /\ log' = <<>>
    /\ UNCHANGED <<idx_01, idx_02, X_train, X_test, wisc, idx, idx_train,
                   idx_test, clfs, tm, mvars>>

\* Cell 14: the index arrays, shuffled and cut to NumSel; the rows and the
\* labels they select; reshape raises unless NumSel rows were selected.
SelectMnist ==
    /\ Ready
    /\ Cur.id = 14
    /\ Cur.reads \subseteq defined
    /\ \E i1 \in ShuffledPrefix(WhereLE9(x_train), NumSel),
          i2 \in ShuffledPrefix(WhereLE9(x_test), NumSel) :
          /\ idx_01' = i1
          /\ idx_02' = i2
          /\ X_train' = Take(x_train, i1)
          /\ X_test' = Take(x_test, i2)
          /\ y_train' = SpinOfDigit(Take(y_train, i1))
          /\ y_test' = SpinOfDigit(Take(y_test, i2))
          /\ IF Len(i1) = NumSel /\ Len(i2) = NumSel
             THEN Finish
             ELSE Abort(353)
    /\ log' = <<>>
    /\ UNCHANGED <<x_train, x_test, wisc, idx, idx_train, idx_test, clfs, tm,
                   mvars>>

SelectWiscKeepsTest ==
    /\ Ready
    /\ Cur.id = 21
    /\ Cur.reads \subseteq defined
    /\ \E sh \in ShuffledPrefix(arange(Len(WiscData.target)),
                                 Len(WiscData.target)) :
          LET w == WiscData
              tr == Slice(sh, 0, (2 * Len(sh)) \div 3)
              te == Slice(sh, (2 * Len(sh)) \div 3, Len(sh))
          IN /\ wisc' = w
             /\ idx' = sh
             /\ idx_train' = tr
             /\ idx_test' = te
             /\ X_train' = Take(w.data, tr)
             /\ y_train' = SpinOfTarget(Take(w.target, tr))
    /\ Finish
    /\ log' = <<>>
    /\ UNCHANGED <<x_train, x_test, idx_01, idx_02, X_test, y_test, clfs, tm,
                   mvars>>

\* Cell 21: load the breast-cancer set, shuffle its indices, split them 2/3
\* to 1/3, select rows and labels.
SelectWisc ==
    /\ Ready
    /\ Cur.id = 21
    /\ Cur.reads \subseteq defined
    /\ \E sh \in ShuffledPrefix(arange(Len(WiscData.target)),
                                 Len(WiscData.target)) :
          LET w == WiscData
              tr == Slice(sh, 0, (2 * Len(sh)) \div 3)
              te == Slice(sh, (2 * Len(sh)) \div 3, Len(sh))
          IN /\ wisc' = w
             /\ idx' = sh
             /\ idx_train' = tr
             /\ idx_test' = te
             /\ X_train' = Take(w.data, tr)
             /\ X_test' = Take(w.data, te)
             /\ y_train' = SpinOfTarget(Take(w.target, tr))
             /\ y_test' = SpinOfTarget(Take(w.target, te))
    /\ Finish
    /\ log' = <<>>
    /\ UNCHANGED <<x_train, x_test, idx_01, idx_02, clfs, tm, mvars>>

\* Cells 18 and 24: clfs = train_model(X_train, y_train, X_test, y_test, 1.0);
\* this is the call, Return below is the assignment.
CallTrainModel ==
    /\ Ready
    /\ Cur.id \in TrainCells
    /\ Cur.reads \subseteq defined
    /\ kernel' = "train_model"
    /\ tm' = Enter(X_train, y_train, X_test, y_test, 1)
    /\ log' = <<>>
    /\ UNCHANGED <<cell, raised, defined, datavars, clfs, mvars>>

\* A cell's library call raises, or the cell reads a name that is not
\* bound (NameError): the run is aborted.
CellRaises ==
    /\ Ready
    /\ Cur.lib \/ ~(Cur.reads \subseteq defined)
    /\ Abort(Cur.line)
    /\ log' = <<>>
    /\ UNCHANGED <<datavars, clfs, tm, mvars>>

\* ---------------------------------------------- train_model, stepwise
Running == kernel = "train_model" /\ tm.pc \in 1..Len(Program)
Stmt == Program[tm.pc]

\* The global names a statement of train_model reads.
StmtReads(st) ==
    CASE st.op = "DWaveSampler" -> {"DWaveSampler", "sapi_token", "url"}
      [] st.op = "EmbeddingComposite" -> {"EmbeddingComposite"}
      [] st.op \in {"Imputer", "StandardScaler", "Normalizer"} ->
            {"preprocessing"}
      [] st.op = "construct" -> {ClfClass[st.k]}
      [] st.op \in {"accu_train", "accu_test", "table"} ->
            {"metric", "metrics"}
      [] OTHER -> {}

\* A prediction holds one label per row, so metric's two vectors are equally
\* long exactly when the labels are as many as the rows.
Comparable(X, y) == Len(y) = Len(X.rows)

\* What the statement needs in order not to raise for certain: its names
\* bound, its objects built and fitted, its arrays of matching lengths.
CanRun(st) ==
    /\ StmtReads(st) \subseteq defined
    /\ CASE st.op = "EmbeddingComposite" -> tm.dwave_sampler
         [] st.op \in {"scale_train", "scale_test"} ->
               "StandardScaler" \in tm.prep
         [] st.op \in {"normalize_train", "normalize_test"} ->
               "Normalizer" \in tm.prep
         [] st.op = "construct" ->
               \A j \in Range(Embedded(st.k)) : tm.clf[j].state # "unbound"
         [] st.op = "fit" ->
               /\ tm.clf[st.k].state # "unbound"
               /\ Comparable(tm.X_train, tm.y_train)
               /\ Len(tm.y_train) > 0
               /\ st.sampler => tm.emb_sampler
               /\ \A j \in Range(tm.clf[st.k].members) :
                     tm.clf[j].state = "fitted"
         [] st.op \in {"predict_train", "predict_test", "weights"} ->
               tm.clf[st.k].state = "fitted"
         [] st.op = "accu_train" ->
               st.k \in tm.y_train_pred /\ Comparable(tm.X_train, tm.y_train)
         [] st.op = "accu_test" ->
               st.k \in tm.y_test_pred /\ Comparable(tm.X_test, tm.y_test)
         [] st.op = "table" ->
               /\ tm.y_train_pred = Clfs /\ tm.y_test_pred = Clfs
               /\ Comparable(tm.X_train, tm.y_train)
               /\ Comparable(tm.X_test, tm.y_test)
         [] OTHER -> TRUE

\* The library call of the current statement has been made and has not come
\* back (a statement that calls no library has nothing to wait for).
Issued == Stmt.lib => tm.pc \in tm.inflight

CallAsync ==
    /\ Running
    /\ Stmt.lib
    /\ tm.pc \notin tm.inflight
    /\ tm' = [tm EXCEPT !.inflight = @ \cup {tm.pc}, !.pc = @ + 1]
    /\ UNCHANGED <<cell, kernel, raised, defined, datavars, clfs, log, mvars>>

\* The interpreter calls into the library and is blocked in the call: the
\* statements are plain synchronous calls, so pc stays at the statement until
\* the call comes back.
Call ==
    /\ Running
    /\ Stmt.lib
    /\ tm.pc \notin tm.inflight
    /\ tm' = [tm EXCEPT !.inflight = @ \cup {tm.pc}]
    /\ UNCHANGED <<cell, kernel, raised, defined, datavars, clfs, log, mvars>>

\* What the log keeps of an executed statement: the statement and whether it
\* returned.
Entry(st, ok) ==
    [op |-> st.op, k |-> st.k, line |-> st.line, ok |-> ok,
     sampler |-> st.sampler]

\* The statement returned: on to the next one.
Advance(frame) ==
    /\ tm' = [frame EXCEPT !.pc = tm.pc + 1, !.inflight = @ \ {tm.pc}]
    /\ log' = Append(log, Entry(Stmt, TRUE))
    /\ UNCHANGED <<cell, kernel, raised, defined, datavars, clfs, mvars>>

\* Lines 195-207: the sampler, the sizes, the preprocessing objects.
Setup ==
    /\ Running
    /\ Stmt.op \in {"DWaveSampler", "EmbeddingComposite", "sizes", "Imputer",
                    "StandardScaler", "Normalizer", "header"}
    /\ Issued
    /\ CanRun(Stmt)
    /\ Advance(CASE Stmt.op = "DWaveSampler" ->
                      [tm EXCEPT !.dwave_sampler = TRUE]
                 [] Stmt.op = "EmbeddingComposite" ->
                      [tm EXCEPT !.emb_sampler = TRUE]
                 [] Stmt.op \in {"Imputer", "StandardScaler", "Normalizer"} ->
                      [tm EXCEPT !.prep = @ \cup {Stmt.op}]
                 [] OTHER -> tm)

\* Lines 209-213: X = scaler.fit_transform(X); X = normalizer.fit_transform(X)
Preprocess ==
    /\ Running
    /\ Stmt.op \in {"scale_train", "normalize_train", "scale_test",
                    "normalize_test"}
    /\ Issued
    /\ CanRun(Stmt)
    /\ Advance(CASE Stmt.op = "scale_train" ->
                      [tm EXCEPT !.X_train = ScalerFitTransform(@)]
                 [] Stmt.op = "normalize_train" ->
                      [tm EXCEPT !.X_train = NormalizerFitTransform(@)]
                 [] Stmt.op = "scale_test" ->
                      [tm EXCEPT !.X_test = ScalerFitTransform(@)]
                 [] Stmt.op = "normalize_test" ->
                      [tm EXCEPT !.X_test = NormalizerFitTransform(@)])

\* clfK = Class(...)
Construct ==
    /\ Running
    /\ Stmt.op = "construct"
    /\ Issued
    /\ CanRun(Stmt)
    /\ Advance([tm EXCEPT !.clf[Stmt.k] =
                   [class |-> ClfClass[Stmt.k], state |-> "constructed",
                    members |-> Embedded(Stmt.k)]])

\* clfK.fit(X_train, y_train [, emb_sampler, lmd=lmd, **DW_PARAMS])
Fit ==
    /\ Running
    /\ Stmt.op = "fit"
    /\ Issued
    /\ CanRun(Stmt)
    /\ Advance([tm EXCEPT !.clf[Stmt.k].state = "fitted",
                           !.fit_args[Stmt.k] = FitArgs(Stmt, tm)])

\* y_trainK = clfK.predict(X_train); y_testK = clfK.predict(X_test)
Predict ==
    /\ Running
    /\ Stmt.op \in {"predict_train", "predict_test"}
    /\ Issued
    /\ CanRun(Stmt)
    /\ Advance(IF Stmt.op = "predict_train"
               THEN [tm EXCEPT !.y_train_pred = @ \cup {Stmt.k}]
               ELSE [tm EXCEPT !.y_test_pred = @ \cup {Stmt.k}])

\* The prints: estimator_weights, the two accuracies, the comparison table.
Report ==
    /\ Running
    /\ Stmt.op \in {"weights", "accu_train", "accu_test", "table"}
    /\ Issued
    /\ CanRun(Stmt)
    /\ Advance(tm)

\* return [clf1, clf2, clf3, clf4, clf5], and the caller's clfs = ...
Return ==
    /\ Running
    /\ Stmt.op = "return"
    /\ clfs' = [i \in 1..Len(ReturnList) |-> tm.clf[ReturnList[i]]]
    /\ log' = Append(log, Entry(Stmt, TRUE))
    /\ tm' = NoFrame
    /\ Finish
    /\ UNCHANGED <<datavars, mvars>>

StmtRaisesSwallowed ==
    /\ Running
    /\ Issued
    /\ Stmt.lib \/ ~CanRun(Stmt)
    /\ Stmt.op # "return"
    /\ log' = Append(log, Entry(Stmt, FALSE))
    /\ tm' = [tm EXCEPT !.pc = tm.pc + 1, !.inflight = @ \ {tm.pc}]
    /\ UNCHANGED <<cell, kernel, raised, defined, datavars, clfs, mvars>>

StmtRaisesRetried ==
    /\ Running
    /\ Issued
    /\ Stmt.lib \/ ~CanRun(Stmt)
    /\ Stmt.op # "return"
    /\ log' = Append(log, Entry(Stmt, FALSE))
    /\ IF Stmt.sampler
       THEN /\ tm' = [tm EXCEPT !.inflight = @ \ {tm.pc}]
            /\ UNCHANGED <<cell, kernel, raised, defined>>
       ELSE /\ tm' = NoFrame
            /\ Abort(Stmt.line)
    /\ UNCHANGED <<datavars, clfs, mvars>>

StmtRaisesOrTimesOut ==
    /\ Running
    /\ Issued
    /\ Stmt.lib \/ ~CanRun(Stmt)
    /\ Stmt.op # "return"
    /\ IF Stmt.sampler
       THEN /\ tm' = [tm EXCEPT !.pc = tm.pc + 1, !.inflight = @ \ {tm.pc}]
            /\ UNCHANGED <<cell, kernel, raised, defined, log>>
       ELSE /\ log' = Append(log, Entry(Stmt, FALSE))
            /\ tm' = NoFrame
            /\ Abort(Stmt.line)
    /\ UNCHANGED <<datavars, clfs, mvars>>

\* The statement raises (its library call fails, or what it needs is
\* missing): the exception leaves train_model and its cell, and the run is
\* aborted; clfs is not assigned.
StmtRaises ==
    /\ Running
    /\ Issued
    /\ Stmt.lib \/ ~CanRun(Stmt)
    /\ Stmt.op # "return"
    /\ log' = Append(log, Entry(Stmt, FALSE))
    /\ tm' = NoFrame
    /\ Abort(Stmt.line)
    /\ UNCHANGED <<datavars, clfs, mvars>>

\* ------------------------------------------------------------- metric
NoRet == [called |-> FALSE, value |-> [ok |-> FALSE, num |-> 0, den |-> 1]]

Spins == {-1, 1}

\* The label vectors of length 1..MaxLen.
Vectors == UNION {[1..n -> Spins] : n \in 1..MaxLen}

CallMetric ==
    /\ ~ret.called
    /\ Len(arg_y) > 0
    /\ ret' = [called |-> TRUE, value |-> metric(arg_y, arg_y_pred)]
    /\ UNCHANGED <<nbvars, arg_y, arg_y_pred>>

\* ------------------------------------------------------ specifications
InitNotebook ==
    /\ cell = 1
    /\ kernel = "idle"
    /\ raised = NoError
    /\ defined = {}
    /\ x_train = <<>> /\ y_train = <<>> /\ x_test = <<>> /\ y_test = <<>>
    /\ idx_01 = <<>> /\ idx_02 = <<>> /\ X_train = <<>> /\ X_test = <<>>
    /\ wisc = [data |-> <<>>, target |-> <<>>]
    /\ idx = <<>> /\ idx_train = <<>> /\ idx_test = <<>>
    /\ clfs = <<>>
    /\ tm = NoFrame
    /\ log = <<>>

Init ==
    /\ InitNotebook
    /\ arg_y = <<>> /\ arg_y_pred = <<>> /\ ret = NoRet

Next ==
    \/ RunPlainCell
    \/ LoadMnist
    \/ SelectMnist
    \/ SelectWisc
    \/ CallTrainModel
    \/ CellRaises
    \/ Call
    \/ Setup
    \/ Preprocess
    \/ Construct
    \/ Fit
    \/ Predict
    \/ Report
    \/ Return
    \/ StmtRaises

Spec == Init /\ [][Next]_vars

\* An annealer-backed fit is in flight.
AnnealerPending ==
    kernel = "train_model" /\ tm.inflight \cap AnnealerFits # {}

\* The kernel runs the next cell or statement whenever there is one, and a
\* call into a local library comes back; nothing in the code makes the
\* remote annealer answer, so a fit that waits for it may wait for ever.
FairSpec == Spec /\ WF_vars(~AnnealerPending /\ Next)

\* metric alone, on every pair of label vectors up to MaxLen long.
InitMetric ==
    /\ InitNotebook
    /\ arg_y \in Vectors
    /\ arg_y_pred \in Vectors
    /\ ret = NoRet

NextMetric == CallMetric

SpecMetric == InitMetric /\ [][NextMetric]_vars

\* ============================================================ claims
\* The entries of the log that are successful fits, and those among them
\* that were handed emb_sampler.
FitEntries == {i \in 1..Len(log) : log[i].op = "fit" /\ log[i].ok}
SamplerFitEntries == {i \in FitEntries : log[i].sampler}

\* The call of train_model the log belongs to has returned.
Returned == Len(log) > 0 /\ log[Len(log)].op = "return"

\* Statement (op, k) returned somewhere before position i of the log.
Before(i, op, k) ==
    \E j \in 1..(i - 1) : log[j].op = op /\ log[j].k = k /\ log[j].ok

\* C1: for two label vectors of the same non-zero length n, metric returns
\* (number of positions where they agree) / n; the value lies in [0, 1], is
\* 1 exactly when the vectors are identical, and does not change when the
\* arguments are swapped.
C1_MetricIsAccuracy ==
    (ret.called /\ Len(arg_y) = Len(arg_y_pred)) =>
        LET agree == {i \in 1..Len(arg_y) : arg_y[i] = arg_y_pred[i]}
            v == ret.value
        IN /\ v.ok
           /\ v.den = Len(arg_y)
           /\ v.num = Cardinality(agree)
           /\ 0 <= v.num /\ v.num <= v.den
           /\ (v.num = v.den) <=> (arg_y = arg_y_pred)
           /\ v = metric(arg_y_pred, arg_y)

\* metric has been called on two different vectors that agree somewhere.
C1_Witness ==
    /\ ret.called
    /\ Len(arg_y) = Len(arg_y_pred)
    /\ 0 < ret.value.num
    /\ ret.value.num < ret.value.den

\* C2, as claimed: a call of train_model that returns has fitted four
\* classifiers, exactly one of them with the annealer sampler.
C2_FourFitsOneAnnealer ==
    Returned =>
        Cardinality(FitEntries) = 4 /\ Cardinality(SamplerFitEntries) = 1

\* C2, amended: a call of train_model that returns has fitted five
\* classifiers, one fit each, and exactly two of the fits, those of Qboost
\* (clf4) and QboostPlus (clf5), received the annealer sampler.
C2_FiveFitsTwoAnnealer ==
    Returned =>
        /\ Cardinality(FitEntries) = 5
        /\ {log[i].k : i \in FitEntries} = Clfs
        /\ {log[i].k : i \in SamplerFitEntries} = {4, 5}

\* A call of train_model has returned.
C2_Witness == Returned /\ Cardinality(SamplerFitEntries) = 2

\* C3: in every run of train_model, X_train and X_test are each scaled and
\* then normalized before any classifier is fitted; a classifier is fitted
\* before it predicts; its accuracies are printed after both of its
\* predictions exist; the comparison table is printed after every
\* classifier has been fitted and has predicted.
C3_FixedSequence ==
    \A i \in 1..Len(log) :
        LET e == log[i]
            Then(a, b) ==
                \E n \in 1..(i - 1) :
                    /\ log[n].op = b /\ log[n].ok
                    /\ Before(n, a, 0)
        IN /\ e.op = "fit" =>
                /\ Then("scale_train", "normalize_train")
                /\ Then("scale_test", "normalize_test")
           /\ e.op \in {"predict_train", "predict_test"} =>
                Before(i, "fit", e.k)
           /\ e.op \in {"accu_train", "accu_test"} =>
                /\ Before(i, "predict_train", e.k)
                /\ Before(i, "predict_test", e.k)
           /\ e.op = "table" =>
                \A k \in Clfs : /\ Before(i, "fit", k)
                                /\ Before(i, "predict_train", k)
                                /\ Before(i, "predict_test", k)

\* The comparison table has been printed.
C3_Witness ==
    \E i \in 1..Len(log) : log[i].op = "table" /\ log[i].ok

\* A step in which a statement of train_model raised.
FailingStep ==
    /\ Len(log') = Len(log) + 1
    /\ ~log'[Len(log')].ok

\* C4: a failing library call in train_model is not handled: the exception
\* leaves train_model at that statement, no later statement runs, clfs is
\* not assigned by that call, and the notebook run is aborted: no later
\* cell runs.
C4_ErrorsAbort ==
    /\ [][FailingStep =>
            /\ kernel' = "aborted"
            /\ raised' = [cell |-> Cur.id, line |-> Stmt.line]
            /\ tm' = NoFrame
            /\ clfs' = clfs
            /\ cell' = cell]_vars
    /\ [][kernel # "aborted"]_vars
    /\ [](kernel = "aborted" /\ raised.cell = 18 => clfs = <<>>)

\* The QboostPlus fit of Experiment 1 failed.
C4_Witness ==
    /\ kernel = "aborted"
    /\ raised = [cell |-> 18, line |-> 257]
    /\ clfs = <<>>

\* C5: within one call of train_model each annealer-backed fit (Qboost,
\* QboostPlus) is invoked at most once, and nothing is executed after a
\* fit that failed.
C5_NoRetry ==
    /\ \A k \in {4, 5} :
          Cardinality({i \in 1..Len(log) :
                          log[i].op = "fit" /\ log[i].k = k}) <= 1
    /\ \A i \in 1..Len(log) :
          (log[i].op = "fit" /\ ~log[i].ok) => i = Len(log)

\* The Qboost fit failed, after one attempt.
C5_Witness ==
    /\ kernel = "aborted"
    /\ Len(log) > 0
    /\ log[Len(log)].op = "fit" /\ log[Len(log)].k = 4
    /\ ~log[Len(log)].ok

\* C6: every label in the y_train and y_test handed to train_model is +1
\* or -1, in Experiment 1 (digits 0..9) and in Experiment 2 (targets 0, 1).
C6_LabelsAreSpins ==
    /\ (Ready /\ Cur.id \in TrainCells) =>
          Range(y_train) \cup Range(y_test) \subseteq Spins
    /\ kernel = "train_model" =>
          Range(tm.y_train) \cup Range(tm.y_test) \subseteq Spins

\* Experiment 1 is training on labels of both classes.
C6_Witness ==
    /\ kernel = "train_model"
    /\ Cur.id = 18
    /\ Range(tm.y_train) = Spins

\* C7: in Experiment 1 a selected sample whose digit is below 5 gets label
\* -1, one whose digit is 5 or more gets +1, and label i belongs to the
\* source sample of feature row i (the one idx_01[i] / idx_02[i] names).
C7_Exp1Labels ==
    [][(Ready /\ Cur.id = 14 /\ cell' = cell + 1) =>
          /\ Len(X_train') = Len(idx_01') /\ Len(y_train') = Len(idx_01')
          /\ Len(X_test') = Len(idx_02') /\ Len(y_test') = Len(idx_02')
          /\ \A i \in 1..Len(idx_01') :
                /\ idx_01'[i] \in 1..Len(x_train)
                /\ X_train'[i] = x_train[idx_01'[i]]
                /\ y_train'[i] = IF y_train[idx_01'[i]] < 5 THEN -1 ELSE 1
          /\ \A i \in 1..Len(idx_02') :
                /\ idx_02'[i] \in 1..Len(x_test)
                /\ X_test'[i] = x_test[idx_02'[i]]
                /\ y_test'[i] = IF y_test[idx_02'[i]] < 5 THEN -1 ELSE 1]_vars

\* Cell 14 has selected two different images, one of each class.
C7_Witness ==
    /\ Ready
    /\ Cur.id = 16
    /\ X_train[1] # X_train[2]
    /\ y_train = <<-1, 1>>

\* C8: for the train pair and the test pair handed to train_model, in both
\* experiments, the feature matrix has as many rows as the label vector has
\* entries, and scaling and normalizing keep the number of rows.
C8_RowsMatchLabels ==
    /\ (Ready /\ Cur.id \in TrainCells) =>
          Len(X_train) = Len(y_train) /\ Len(X_test) = Len(y_test)
    /\ kernel = "train_model" =>
          /\ Len(tm.X_train.rows) = Len(tm.y_train)
          /\ Len(tm.X_test.rows) = Len(tm.y_test)
          /\ Len(tm.X_train.rows) = Len(X_train)
          /\ Len(tm.X_test.rows) = Len(X_test)

\* Experiment 2 has preprocessed both matrices, of different sizes.
C8_Witness ==
    /\ kernel = "train_model"
    /\ Cur.id = 24
    /\ tm.X_train.scaled /\ tm.X_train.normalized
    /\ tm.X_test.scaled /\ tm.X_test.normalized
    /\ Len(tm.y_train) # Len(tm.y_test)

\* C9: in Experiment 2, for n samples, the shuffled index array is split
\* into a train part of floor(2n/3) indices and a test part of the other
\* n - floor(2n/3): the parts are disjoint and together hold every index
\* exactly once.
C9_SplitIsPartition ==
    idx # <<>> =>
        LET n == Len(wisc.target)
        IN /\ Len(idx) = n
           /\ Range(idx_train) \cap Range(idx_test) = {}
           /\ Range(idx_train) \cup Range(idx_test) = 1..n
           /\ Cardinality(Range(idx_train)) = Len(idx_train)
           /\ Cardinality(Range(idx_test)) = Len(idx_test)
           /\ Len(idx_train) = (2 * n) \div 3
           /\ Len(idx_test) = n - (2 * n) \div 3

\* Cell 21 has split a shuffle that moved the indices.
C9_Witness ==
    /\ idx # <<>>
    /\ idx # arange(Len(idx))
    /\ Len(idx_train) > 0 /\ Len(idx_test) > 0

\* C10: the list train_model returns is [Adaboost, decision-tree ensemble,
\* random forest, Qboost, QboostPlus], in this order, and each of its
\* objects has completed its fit.
C10_ReturnedFitted ==
    clfs # <<>> =>
        /\ [i \in 1..Len(clfs) |-> clfs[i].class] = ClfClass
        /\ \A i \in 1..Len(clfs) : clfs[i].state = "fitted"

\* train_model has returned to Experiment 2's cell.
C10_Witness ==
    /\ clfs # <<>>
    /\ cell = NumCells + 1

\* C11: execution is single-threaded and blocking: at most one library call
\* of train_model is in flight, and it is the call of the current statement;
\* a statement starts only after every earlier one has come back (the log
\* holds the earlier statements, all returned, in program order); the two
\* annealer-backed fits are never in flight together; and no call is left
\* in flight when train_model is not running.
C11_OneCallInFlight ==
    /\ Cardinality(tm.inflight) <= 1
    /\ ~(AnnealerFits \subseteq tm.inflight)
    /\ kernel # "train_model" => tm.inflight = {}
    /\ kernel = "train_model" =>
          /\ tm.inflight \subseteq {tm.pc}
          /\ Len(log) = tm.pc - 1
          /\ \A i \in 1..Len(log) :
                log[i].ok /\ log[i].line = Program[i].line

\* The QboostPlus fit is in flight, after the Qboost fit has come back.
C11_Witness ==
    /\ kernel = "train_model"
    /\ tm.inflight = {tm.pc}
    /\ Stmt.op = "fit" /\ Stmt.k = 5
    /\ \E i \in FitEntries : log[i].k = 4

\* C12: there is no timeout and no cancellation. If the annealer-backed
\* fits always come back, a call of train_model ends: it returns the
\* classifier list, or one of its calls raised. While an annealer-backed
\* fit is in flight the only step is the completion (return or raise) of
\* that fit, so if it never comes back train_model never returns and no
\* later statement or cell runs.
C12_NoTimeout ==
    /\ ([]<>~AnnealerPending) =>
          ((kernel = "train_model") ~>
              \/ kernel = "idle" /\ Returned /\ clfs # <<>>
              \/ kernel = "aborted" /\ Len(log) > 0 /\ ~log[Len(log)].ok)
    /\ [][AnnealerPending =>
            /\ Len(log') = Len(log) + 1
            /\ log'[Len(log')].line = Stmt.line
            /\ log'[Len(log')].op = "fit"]_vars

\* The Qboost fit of Experiment 1 is waiting for the annealer.
C12_Witness ==
    /\ AnnealerPending
    /\ Cur.id = 18
    /\ Stmt.k = 4

\* C14: QboostPlus (clf5) is built from exactly clf1, clf2, clf3, clf4
\* (Adaboost, decision-tree ensemble, random forest, Qboost), in this order,
\* and only after all four have been fitted; its fit gets the same scaled
\* and normalized X_train and the same y_train as the Qboost fit, the
\* sampler, the lmd handed to train_model, and DW_PARAMS.
C14_QboostPlusBuild ==
    kernel = "train_model" =>
        /\ tm.clf[5].state # "unbound" =>
              /\ tm.clf[5].members = <<1, 2, 3, 4>>
              /\ [j \in 1..4 |-> tm.clf[tm.clf[5].members[j]].class] =
                    <<"AdaBoostClassifier", "WeakClassifiers",
                      "RandomForestClassifier", "QBoostClassifier">>
              /\ \A j \in 1..4 : tm.clf[j].state = "fitted"
        /\ tm.clf[5].state = "fitted" =>
              /\ tm.fit_args[5] = tm.fit_args[4]
              /\ tm.fit_args[5].X = tm.X_train
              /\ tm.fit_args[5].X.scaled /\ tm.fit_args[5].X.normalized
              /\ tm.fit_args[5].X.rows = X_train
              /\ tm.fit_args[5].y = y_train
              /\ tm.fit_args[5].sampler /\ tm.emb_sampler
              /\ tm.fit_args[5].lmd = tm.lmd /\ tm.lmd = 1
              /\ tm.fit_args[5].params = DW_PARAMS

\* Experiment 2 has fitted QboostPlus.
C14_Witness ==
    /\ kernel = "train_model"
    /\ Cur.id = 24
    /\ tm.clf[5].state = "fitted"
    /\ tm.fit_args[5].lmd = 1

\* C15: in Experiment 1 the rows selected for X_train are pairwise distinct
\* samples of the training split and the rows selected for X_test are
\* pairwise distinct samples of the test split: no image index occurs twice
\* in idx_01 or in idx_02.
C15_DistinctSamples ==
    (idx_01 # <<>> /\ idx_02 # <<>>) =>
        /\ Cardinality(Range(idx_01)) = Len(idx_01)
        /\ Cardinality(Range(idx_02)) = Len(idx_02)

\* C16: with the cells run once each from top to bottom, every global name
\* a cell or a statement of train_model reads has been bound by an earlier
\* cell; and the second call of train_model gets Experiment 2 data only:
\* its four arguments are the rows and labels cell 21 selected from the
\* breast-cancer set, and no MNIST row is among them.
C16_NamesBoundExp2Data ==
    /\ Ready => Cur.reads \subseteq defined
    /\ Running => StmtReads(Stmt) \subseteq defined
    /\ (kernel = "train_model" /\ Cur.id = 24) =>
          /\ tm.X_train.rows = Take(wisc.data, idx_train)
          /\ tm.X_test.rows = Take(wisc.data, idx_test)
          /\ tm.y_train = SpinOfTarget(Take(wisc.target, idx_train))
          /\ tm.y_test = SpinOfTarget(Take(wisc.target, idx_test))
          /\ (Range(tm.X_train.rows) \cup Range(tm.X_test.rows)) \cap
                (Range(x_train) \cup Range(x_test)) = {}

\* The second call of train_model has built its sampler from sapi_token and
\* url.
C16_Witness ==
    /\ kernel = "train_model"
    /\ Cur.id = 24
    /\ tm.dwave_sampler
    /\ Len(tm.X_test.rows) > 0

====
